---------------------------- MODULE Spec2Model ----------------------------
(***************************************************************************)
(* denpabot: a chat-moderation bot.  A message is deleted when it contains *)
(* a banned phrase that is not covered by a word of the built-in           *)
(* dictionary.  The model has two parts:                                   *)
(*   - the pure functions (Trie, the match resolution, the remove command, *)
(*     the CBOR encoding of AppData), exercised by PureSpec on inputs      *)
(*     drawn from bounded sets;                                            *)
(*   - the running process (main, the concurrent message handlers, the     *)
(*     three RwLocks, the file appdata.bin), specified by Spec.            *)
(* A string is a sequence of one-character strings.                        *)
(***************************************************************************)
EXTENDS Integers, Sequences, FiniteSets, TLC

(***************************************************************************)
(* Bounds                                                                  *)
(***************************************************************************)
MaxPhraseLen == 2      \* longest phrase inserted by PureSpec
MaxTextLen == 3        \* longest text scanned by PureSpec
MaxPhrases == 2        \* most phrases inserted into one index by PureSpec
MaxOffset == 1         \* largest span offset given to the resolution by PureSpec
MaxSpans == 2          \* longest span list given to the resolution by PureSpec
MaxWords == 3          \* longest word list given to the remove command by PureSpec

(***************************************************************************)
(* Strings                                                                 *)
(***************************************************************************)
\* Characters that phrases are made of, and characters that texts are made of.
\* "E" is a capital letter (its lower case is "e"), "é" takes two bytes in UTF-8.
PhraseChars == {"a", "s"}
TextChars == {"a", "s", "é"}

\* The code points of the one-byte (ASCII) characters the model uses.
AsciiCode ==
    " " :> 32 @@ "!" :> 33 @@ "0" :> 48 @@ "1" :> 49 @@ "2" :> 50 @@ "3" :> 51 @@
    "4" :> 52 @@ "5" :> 53 @@ "6" :> 54 @@ "7" :> 55 @@ "8" :> 56 @@ "9" :> 57 @@
    "E" :> 69 @@ "a" :> 97 @@ "b" :> 98 @@ "c" :> 99 @@ "d" :> 100 @@ "e" :> 101 @@
    "f" :> 102 @@ "g" :> 103 @@ "h" :> 104 @@ "i" :> 105 @@ "j" :> 106 @@ "k" :> 107 @@
    "l" :> 108 @@ "m" :> 109 @@ "n" :> 110 @@ "o" :> 111 @@ "p" :> 112 @@ "q" :> 113 @@
    "r" :> 114 @@ "s" :> 115 @@ "t" :> 116 @@ "u" :> 117 @@ "v" :> 118 @@ "w" :> 119 @@
    "x" :> 120 @@ "y" :> 121 @@ "z" :> 122

\* The UTF-8 encoding of a character: one byte for ASCII, two for "é" (U+00E9).
Utf8 ==
    [c \in DOMAIN AsciiCode \cup {"é"} |->
        IF c = "é" THEN <<195, 169>> ELSE <<AsciiCode[c]>>]

\* str::len: the length in bytes.
RECURSIVE ByteLen(_)
ByteLen(s) == IF s = <<>> THEN 0 ELSE Len(Utf8[Head(s)]) + ByteLen(Tail(s))

\* str::to_lowercase.
LowerChar(c) == IF c = "E" THEN "e" ELSE c
to_lowercase(s) == [i \in 1..Len(s) |-> LowerChar(s[i])]

\* All sequences over S of length lo..hi.
SeqsOf(S, lo, hi) == UNION {[1..n -> S] : n \in lo..hi}

(***************************************************************************)
(* Trie                                                                    *)
(***************************************************************************)
\* TrieNode::default(): no children, not the end of a phrase.
NoChildren == [c \in {} |-> TRUE]
EmptyNode == [children |-> NoChildren, end |-> FALSE]

\* Trie::reset / Trie::default(): the root is a fresh node.
EmptyTrie == EmptyNode

\* InsertFrom, were it to flip the flag of the last node instead of setting it.
RECURSIVE InsertFrom_Toggle(_, _)
InsertFrom_Toggle(node, word) ==
    IF word = <<>>
    THEN [node EXCEPT !.end = ~@]
    ELSE LET c == Head(word)
             child == IF c \in DOMAIN node.children THEN node.children[c] ELSE EmptyNode
         IN  [node EXCEPT !.children =
                 [d \in DOMAIN node.children \cup {c} |->
                     IF d = c THEN InsertFrom_Toggle(child, Tail(word))
                              ELSE node.children[d]]]

\* The loop of Trie::insert from `node` on: create the child when it is missing,
\* descend, and flag the node reached after the last character.
RECURSIVE InsertFrom(_, _)
InsertFrom(node, word) ==
    IF word = <<>>
    THEN [node EXCEPT !.end = TRUE]
    ELSE LET c == Head(word)
             child == IF c \in DOMAIN node.children THEN node.children[c] ELSE EmptyNode
         IN  [node EXCEPT !.children =
                 [d \in DOMAIN node.children \cup {c} |->
                     IF d = c THEN InsertFrom(child, Tail(word)) ELSE node.children[d]]]

\* insert, were it to lack the early return on an empty word.
insert_NoEarlyReturn(trie, word) == InsertFrom(trie, word)

\* Trie::insert.
insert(trie, word) == IF ByteLen(word) = 0 THEN trie ELSE InsertFrom(trie, word)

\* Walk, were it to stop at the first flagged node (only the shortest phrase
\* at each start).
RECURSIVE Walk_FirstOnly(_, _, _, _, _)
Walk_FirstOnly(node, input, pos, start, end) ==
    IF pos > Len(input)
    THEN <<>>
    ELSE LET c == input[pos] IN
         IF c \in DOMAIN node.children
         THEN LET v == node.children[c] IN
              IF v.end
              THEN << <<start, start + end>> >>
              ELSE Walk_FirstOnly(v, input, pos + 1, start, end + 1)
         ELSE <<>>

\* The inner loop of Trie::find_matches: follow the characters from position
\* pos (1-based) on, pushing (start, start + end) at every flagged node.
RECURSIVE Walk(_, _, _, _, _)
Walk(node, input, pos, start, end) ==
    IF pos > Len(input)
    THEN <<>>
    ELSE LET c == input[pos] IN
         IF c \in DOMAIN node.children
         THEN LET v == node.children[c] IN
              (IF v.end THEN << <<start, start + end>> >> ELSE <<>>)
                  \o Walk(v, input, pos + 1, start, end + 1)
         ELSE <<>>

\* The outer loop of Trie::find_matches: start runs over 0..input.len()-1 (bytes),
\* the cursor advances one character per round.
RECURSIVE MatchesFrom(_, _, _)
MatchesFrom(trie, input, start) ==
    IF start >= ByteLen(input)
    THEN <<>>
    ELSE Walk(trie, input, start + 1, start, 0) \o MatchesFrom(trie, input, start + 1)

\* Trie::find_matches.
find_matches(trie, input) == MatchesFrom(trie, input, 0)

\* FindWordFrom, were it to look at the flag only after the last character (the
\* whole input is a stored phrase).
RECURSIVE FindWordFrom_WholeInput(_, _, _)
FindWordFrom_WholeInput(node, input, pos) ==
    IF pos > Len(input)
    THEN FALSE
    ELSE LET c == input[pos] IN
         IF c \in DOMAIN node.children
         THEN IF node.children[c].end /\ pos = Len(input)
              THEN TRUE
              ELSE FindWordFrom_WholeInput(node.children[c], input, pos + 1)
         ELSE FALSE

\* The loop of Trie::find_word: one walk from the root over the characters of the
\* input, true at the first flagged node, false at the first missing child.
RECURSIVE FindWordFrom(_, _, _)
FindWordFrom(node, input, pos) ==
    IF pos > Len(input)
    THEN FALSE
    ELSE LET c == input[pos] IN
         IF c \in DOMAIN node.children
         THEN IF node.children[c].end
              THEN TRUE
              ELSE FindWordFrom(node.children[c], input, pos + 1)
         ELSE FALSE

\* Trie::find_word.
find_word(trie, input) == FindWordFrom(trie, input, 1)

\* BuildTrieFrom, were the words inserted as they are.
RECURSIVE BuildTrieFrom_AsIs(_, _)
BuildTrieFrom_AsIs(trie, words) ==
    IF words = <<>>
    THEN trie
    ELSE BuildTrieFrom_AsIs(insert(trie, Head(words)), Tail(words))

\* AppData::build_trie: insert the lower-cased words in order.
RECURSIVE BuildTrieFrom(_, _)
BuildTrieFrom(trie, words) ==
    IF words = <<>>
    THEN trie
    ELSE BuildTrieFrom(insert(trie, to_lowercase(Head(words))), Tail(words))

build_trie(words) == BuildTrieFrom(EmptyTrie, words)

(***************************************************************************)
(* Match resolution (Handler::message, after the two scans)                *)
(***************************************************************************)
\* Covered, were it to take any overlap for a cover.
RECURSIVE Covered_Overlap(_, _)
Covered_Overlap(censor, allows) ==
    IF allows = <<>>
    THEN FALSE
    ELSE IF Head(allows)[1] <= censor[2] /\ Head(allows)[2] >= censor[1]
         THEN TRUE
         ELSE Covered_Overlap(censor, Tail(allows))

\* The inner loop: is there an allow span with allow.0 <= censor.0 and
\* allow.1 >= censor.1 (the loop breaks at the first one).
RECURSIVE Covered(_, _)
Covered(censor, allows) ==
    IF allows = <<>>
    THEN FALSE
    ELSE IF Head(allows)[1] <= censor[1] /\ Head(allows)[2] >= censor[2]
         THEN TRUE
         ELSE Covered(censor, Tail(allows))

\* The outer loop: checks starts at censors.len() and loses one for every
\* covered censor span.
RECURSIVE Checks(_, _, _)
Checks(checks, censors, allows) ==
    IF censors = <<>>
    THEN checks
    ELSE Checks(IF Covered(Head(censors), allows) THEN checks - 1 ELSE checks,
                Tail(censors), allows)

\* Is the message deleted: only when censors is not empty and checks > 0.
Suppressed(censors, allows) ==
    IF censors # <<>>
    THEN Checks(Len(censors), censors, allows) > 0
    ELSE FALSE

(***************************************************************************)
(* Commands                                                                *)
(***************************************************************************)
CmdHelp == <<"d", "!", "h", "e", "l", "p">>
CmdList == <<"d", "!", "l", "i", "s", "t">>
CmdAdmin == <<"d", "!", "a", "d", "m", "i", "n">>
CmdRemove == <<"d", "!", "r", "e", "m", "o", "v", "e", " ">>
CmdAdd == <<"d", "!", "a", "d", "d", " ">>

\* str::starts_with.
starts_with(s, p) == Len(s) >= Len(p) /\ SubSeq(s, 1, Len(p)) = p

\* str::replace(p, ""): drop every occurrence of p, found left to right.
RECURSIVE RemoveAll(_, _)
RemoveAll(s, p) ==
    IF s = <<>>
    THEN <<>>
    ELSE IF starts_with(s, p)
         THEN RemoveAll(SubSeq(s, Len(p) + 1, Len(s)), p)
         ELSE <<Head(s)>> \o RemoveAll(Tail(s), p)

\* The value of a decimal digit, -1 for any other character.
DigitValue(c) ==
    CASE c = "0" -> 0 [] c = "1" -> 1 [] c = "2" -> 2 [] c = "3" -> 3
      [] c = "4" -> 4 [] c = "5" -> 5 [] c = "6" -> 6 [] c = "7" -> 7
      [] c = "8" -> 8 [] c = "9" -> 9 [] OTHER -> -1

\* str::parse::<usize> on a short string: -1 stands for Err (an empty string or
\* a character that is not a digit).
RECURSIVE ParseDigits(_, _)
ParseDigits(acc, s) ==
    IF s = <<>>
    THEN acc
    ELSE IF DigitValue(Head(s)) < 0
         THEN -1
         ELSE ParseDigits(acc * 10 + DigitValue(Head(s)), Tail(s))

parse_usize(s) == IF s = <<>> THEN -1 ELSE ParseDigits(0, s)

\* usize::MAX, the value of 0 - 1 in a build without overflow checks.  It is only
\* ever compared with the length of the word list; the largest integer of the
\* model checker stands for 2^64 - 1.
UsizeMax == 2147483647

\* RemoveIdx, were it to forget the - 1.
RemoveIdx_NoAdjust(content) ==
    LET n == parse_usize(RemoveAll(content, CmdRemove)) IN
    IF n < 0 THEN {-1} ELSE {n}

\* RemoveIdx, were 0 - 1 to stay at 0.
RemoveIdx_Saturating(content) ==
    LET n == parse_usize(RemoveAll(content, CmdRemove)) IN
    IF n < 0 THEN {-1}
    ELSE IF n = 0 THEN {0}
    ELSE {n - 1}

\* d!remove, the position computation: the outcomes of
\* str::parse::<usize>(&num).unwrap() - 1.  -1 stands for a panic: on a parse
\* error, and on 0 with overflow checks on; with overflow checks off 0 - 1 wraps.
RemoveIdx(content) ==
    LET n == parse_usize(RemoveAll(content, CmdRemove)) IN
    IF n < 0 THEN {-1}
    ELSE IF n = 0 THEN {-1, UsizeMax}
    ELSE {n - 1}

\* Vec::remove(idx), idx 0-based and in range.
VecRemove(v, idx) == SubSeq(v, 1, idx) \o SubSeq(v, idx + 2, Len(v))

\* d!remove, under the write lock: remove when idx < words.len().
RemoveWord(words, idx) == IF idx < Len(words) THEN VecRemove(words, idx) ELSE words

(***************************************************************************)
(* Persistence: serde_cbor::to_vec / from_slice of AppData                 *)
(***************************************************************************)
\* AppData::default().
DefaultAppData == [words |-> <<>>, admins |-> <<>>]

\* The head of a CBOR item: the major type in the top 3 bits, then the argument
\* (below 24 in the same byte, else 1, 2 or 4 following bytes, big-endian; the
\* 8-byte form is for arguments from 2^32 on, which the model does not have).
CborHead(major, n) ==
    IF n < 24 THEN <<major * 32 + n>>
    ELSE IF n < 256 THEN <<major * 32 + 24, n>>
    ELSE IF n < 65536 THEN <<major * 32 + 25, n \div 256, n % 256>>
    ELSE <<major * 32 + 26, n \div 16777216, (n \div 65536) % 256,
           (n \div 256) % 256, n % 256>>

\* The UTF-8 bytes of a string.
RECURSIVE Utf8Bytes(_)
Utf8Bytes(s) == IF s = <<>> THEN <<>> ELSE Utf8[Head(s)] \o Utf8Bytes(Tail(s))

\* A text string: major type 3, the length in bytes, the bytes.
CborText(s) == CborHead(3, ByteLen(s)) \o Utf8Bytes(s)

\* Vec<String>: an array (major type 4) of text strings.
RECURSIVE CborTexts(_)
CborTexts(v) == IF v = <<>> THEN <<>> ELSE CborText(Head(v)) \o CborTexts(Tail(v))

CborWords(words) == CborHead(4, Len(words)) \o CborTexts(words)

\* (String, u64): an array of two items, a text string and an unsigned integer.
CborAdmin(admin) == CborHead(4, 2) \o CborText(admin[1]) \o CborHead(0, admin[2])

\* Vec<(String, u64)>: an array of such pairs.
RECURSIVE CborPairs(_)
CborPairs(v) == IF v = <<>> THEN <<>> ELSE CborAdmin(Head(v)) \o CborPairs(Tail(v))

CborAdmins(admins) == CborHead(4, Len(admins)) \o CborPairs(admins)

\* to_vec, were the admins left out of the serialization.
to_vec_NoAdmins(ad) ==
    CborHead(5, 2)
        \o CborText(<<"w", "o", "r", "d", "s">>)
        \o CborWords(ad.words)
        \o CborText(<<"a", "d", "m", "i", "n", "s">>)
        \o CborHead(4, 0)

\* serde_cbor::to_vec(&AppData): a map of two entries keyed by the field names.
to_vec(ad) ==
    CborHead(5, 2)
        \o CborText(<<"w", "o", "r", "d", "s">>)
        \o CborWords(ad.words)
        \o CborText(<<"a", "d", "m", "i", "n", "s">>)
        \o CborAdmins(ad.admins)

\* Reading the head at the front of b: the major type, the argument, the rest.
ReadHead(b) ==
    LET info == b[1] % 32
        more == CASE info < 24 -> 0 [] info = 24 -> 1 [] info = 25 -> 2 [] OTHER -> 4
        arg == CASE info < 24 -> info
                 [] info = 24 -> b[2]
                 [] info = 25 -> b[2] * 256 + b[3]
                 [] OTHER -> b[2] * 16777216 + b[3] * 65536 + b[4] * 256 + b[5]
    IN  [major |-> b[1] \div 32, arg |-> arg, rest |-> SubSeq(b, 2 + more, Len(b))]

\* The characters of a run of UTF-8 bytes: a lead byte below 128 is one
\* character, a lead byte from 192 on takes the next byte with it.
RECURSIVE Utf8Chars(_)
Utf8Chars(b) ==
    IF b = <<>>
    THEN <<>>
    ELSE LET n == IF b[1] < 128 THEN 1 ELSE 2
             c == CHOOSE x \in DOMAIN Utf8 : Utf8[x] = SubSeq(b, 1, n)
         IN  <<c>> \o Utf8Chars(SubSeq(b, n + 1, Len(b)))

\* Reading a text string: the value and the rest.
ReadText(b) ==
    LET h == ReadHead(b) IN
    [val |-> Utf8Chars(SubSeq(h.rest, 1, h.arg)),
     rest |-> SubSeq(h.rest, h.arg + 1, Len(h.rest))]

\* Reading a (String, u64).
ReadAdmin(b) ==
    LET h == ReadHead(b)
        name == ReadText(h.rest)
        id == ReadHead(name.rest)
    IN  [val |-> <<name.val, id.arg>>, rest |-> id.rest]

\* Reading n text strings: the values in order and the rest.
RECURSIVE ReadTexts(_, _)
ReadTexts(n, b) ==
    IF n = 0
    THEN [val |-> <<>>, rest |-> b]
    ELSE LET x == ReadText(b)
             xs == ReadTexts(n - 1, x.rest)
         IN  [val |-> <<x.val>> \o xs.val, rest |-> xs.rest]

\* Reading n pairs.
RECURSIVE ReadPairs(_, _)
ReadPairs(n, b) ==
    IF n = 0
    THEN [val |-> <<>>, rest |-> b]
    ELSE LET x == ReadAdmin(b)
             xs == ReadPairs(n - 1, x.rest)
         IN  [val |-> <<x.val>> \o xs.val, rest |-> xs.rest]

\* Reading a Vec<String> and a Vec<(String, u64)>: the head gives the length.
ReadWords(b) == LET h == ReadHead(b) IN ReadTexts(h.arg, h.rest)
ReadAdmins(b) == LET h == ReadHead(b) IN ReadPairs(h.arg, h.rest)

\* One entry of the map: the field it names gets the value that follows.
ReadField(ad, b) ==
    LET key == ReadText(b) IN
    IF key.val = <<"w", "o", "r", "d", "s">>
    THEN LET v == ReadWords(key.rest)
         IN  [val |-> [ad EXCEPT !.words = v.val], rest |-> v.rest]
    ELSE LET v == ReadAdmins(key.rest)
         IN  [val |-> [ad EXCEPT !.admins = v.val], rest |-> v.rest]

\* serde_cbor::from_slice::<AppData> of a well-formed blob: the map's entries in
\* the order they come.
from_slice(b) ==
    LET h == ReadHead(b)
        f1 == ReadField(DefaultAppData, h.rest)
        f2 == ReadField(f1.val, f1.rest)
    IN  f2.val

(***************************************************************************)
(* The running process                                                     *)
(***************************************************************************)
NumHandlers == 2       \* message handlers that run at the same time
MaxMessages == 2       \* messages handled in one run of the process
MaxRestarts == 1       \* restarts of the process

Handlers == 1..NumHandlers

\* The hardcoded administrator, ("mip5", 231963552292929546); the identity is
\* only ever compared and encoded, a small number stands for it.
MipId == 546
Mip == << <<"m", "i", "p", "5">>, MipId >>

\* Another user.
Bob == << <<"b", "o", "b">>, 7 >>

\* APP_WORD_LIST.lines(): the built-in dictionary.
APP_WORD_LIST == << <<"a", "e">>, <<"e", "a">> >>

\* The messages the gateway delivers: the author's identity and bot flag, the
\* content and the users mentioned.
Message(bot, author, content, mentions) ==
    [bot |-> bot, author |-> author, content |-> content, mentions |-> mentions]

NoMessage == Message(FALSE, 0, <<>>, <<>>)

Messages ==
    { Message(FALSE, MipId, CmdAdd \o <<"E">>, <<>>),
      Message(FALSE, MipId, CmdRemove \o <<"1">>, <<>>),
      Message(FALSE, MipId, CmdRemove \o <<"0">>, <<>>),
      Message(FALSE, MipId, CmdRemove \o <<"x">>, <<>>),
      Message(FALSE, MipId, CmdAdmin, <<Bob>>),
      Message(FALSE, Bob[2], CmdAdd \o <<"a">>, <<>>),
      Message(FALSE, Bob[2], <<"E", "a">>, <<>>),
      Message(FALSE, Bob[2], CmdList, <<>>),
      Message(FALSE, Bob[2], CmdHelp, <<>>),
      Message(TRUE, Bob[2], CmdHelp, <<>>) }

\* The file appdata.bin: absent, or its bytes.
NoFile == [exists |-> FALSE, bytes |-> <<>>]
File(bytes) == [exists |-> TRUE, bytes |-> bytes]

\* What appdata.bin holds when the process first starts: nothing, or a rule set
\* written by some earlier program whose admins lack the hardcoded one.
InitialFiles ==
    { NoFile,
      File(to_vec([words |-> << <<"E">> >>, admins |-> <<Bob>>])) }

\* std::sync::RwLock: the holders of read guards and the holder of the write
\* guard (0: nobody).
Unlocked == [readers |-> {}, writer |-> 0]
\* CanRead, were a read guard given while the write guard is held.
CanRead_Unguarded(l) == TRUE
CanRead(l) == l.writer = 0
CanWrite(l) == l.writer = 0 /\ l.readers = {}
AddReader(l, h) == [l EXCEPT !.readers = @ \cup {h}]

\* DropReader, were the read guard never dropped.
DropReader_Leak(l, h) == l
DropReader(l, h) == [l EXCEPT !.readers = @ \ {h}]

SetWriter(l, h) == [l EXCEPT !.writer = h]

\* AllowStep, were it to insert every word.
AllowStep_NoSkip(al, cl, word) == insert(al, word)

\* Handler::build, one round of the loop over the dictionary: a word is skipped
\* when find_word finds it in the censor list, inserted otherwise.
AllowStep(al, cl, word) == IF find_word(cl, word) THEN al ELSE insert(al, word)

\* Handler::build, the whole loop from word i on.
RECURSIVE AllowFrom(_, _, _)
AllowFrom(al, cl, i) ==
    IF i > Len(APP_WORD_LIST)
    THEN al
    ELSE AllowFrom(AllowStep(al, cl, APP_WORD_LIST[i]), cl, i + 1)

\* The allow list that Handler::build derives from a censor list.
BuildAllow(cl) == AllowFrom(EmptyTrie, cl, 1)

\* The outcome of a handler: what it answered or did with the message.
Result(kind, updated, words, admins) ==
    [kind |-> kind, updated |-> updated, words |-> words, admins |-> admins]
NoResult == Result("none", FALSE, <<>>, <<>>)

\* The names of the admins, as say_list prints them.
Names(admins) == [k \in 1..Len(admins) |-> admins[k][1]]

\* IsAdmin, were the test passed by everyone.
IsAdmin_Anyone(admins, id) == TRUE

\* Is the identity in admins (the test of line 153).
IsAdmin(admins, id) == \E k \in 1..Len(admins) : admins[k][2] = id

VARIABLES
    mainpc,        \* where main is: "seed", "load", "running", "crashed"
    restarts,      \* how often the process was restarted
    handled,       \* how many messages were delivered
    file,          \* appdata.bin
    app_data,      \* Handler.app_data: [words, admins]
    censor_list,   \* Handler.censor_list
    allow_list,    \* Handler.allow_list
    locks,         \* the RwLock around each of the three
    pc,            \* where each handler is
    msg,           \* the message each handler is handling
    idx,           \* d!remove: idx
    i,             \* the loop position, over msg.mentions or APP_WORD_LIST.lines()
    censors,       \* Handler::message: the matches in censor_list
    say,           \* Handler::say_list: the words listed so far
    obs,           \* history: what each handler's scans read
    last,          \* the message, the outcome and the history of the handler that returned last
    alPrev,        \* history: allow_list as it was before the rebuild in progress
    atExit,        \* history: app_data when the process was last restarted
    failed,        \* history: has a handler panicked in save since the process started
    pin,           \* PureSpec: the input
    pout           \* PureSpec: the output

procvars == <<mainpc, restarts, handled, file, app_data, censor_list, allow_list,
              locks, pc, msg, idx, i, censors, say, obs, last, alPrev, atExit,
              failed>>
vars == <<procvars, pin, pout>>

\* The history of one handler's scans: ok, the censor lists that are up to date
\* for it (built from the words as they were when it started or as a later
\* command left them); cl and al, the tries its scans read; how many scans it
\* made; whether each trie it read was up to date; whether the scan of allow_list
\* fell into a rebuild, and whether it then read neither the allow list from
\* before nor the one from after.  And the history of one handler's command: the
\* steps it has taken; app_data as its own change left it; whether no other
\* handler has changed app_data since; whether, unless another had, the file it
\* wrote decodes to app_data as its change left it and the censor list it built
\* is the index of those words.
NoObs == [ok |-> {}, cl |-> EmptyTrie, al |-> EmptyTrie, scanned |-> 0,
          clFresh |-> TRUE, alFresh |-> TRUE, inBuild |-> FALSE, torn |-> FALSE,
          steps |-> <<>>, after |-> DefaultAppData, alone |-> TRUE,
          wrote |-> FALSE, built |-> FALSE]

NoLast == [msg |-> NoMessage, result |-> NoResult, obs |-> NoObs]

NoPure == [op |-> "none", words |-> <<>>, text |-> <<>>, censors |-> <<>>,
           allows |-> <<>>, keys |-> <<>>]
NoOut == [done |-> FALSE, matches |-> <<>>, found |-> FALSE, suppressed |-> FALSE,
          words |-> <<>>, panic |-> FALSE, trie |-> EmptyTrie, once |-> EmptyTrie,
          twice |-> EmptyTrie, token |-> <<>>]

\* Handler::default() and the handlers at rest.
Fresh(f, r, n) ==
    /\ mainpc = "seed"
    /\ restarts = r
    /\ handled = n
    /\ file = f
    /\ app_data = DefaultAppData
    /\ censor_list = EmptyTrie
    /\ allow_list = EmptyTrie
    /\ locks = [app_data |-> Unlocked, censor_list |-> Unlocked, allow_list |-> Unlocked]
    /\ pc = [h \in Handlers |-> "idle"]
    /\ msg = [h \in Handlers |-> NoMessage]
    /\ idx = [h \in Handlers |-> 0]
    /\ i = [h \in Handlers |-> 0]
    /\ censors = [h \in Handlers |-> <<>>]
    /\ say = [h \in Handlers |-> <<>>]
    /\ obs = [h \in Handlers |-> NoObs]
    /\ last = NoLast
    /\ alPrev = EmptyTrie
    /\ failed = FALSE

Init ==
    /\ \E f \in InitialFiles : Fresh(f, 0, 0)
    /\ atExit = [quiet |-> FALSE, data |-> DefaultAppData]
    /\ pin = NoPure
    /\ pout = NoOut

(***************************************************************************)
(* main                                                                    *)
(***************************************************************************)
\* main, line 302: the hardcoded admin is pushed onto the default app_data.
Seed ==
    /\ mainpc = "seed"
    /\ app_data' = [app_data EXCEPT !.admins = Append(@, Mip)]
    /\ mainpc' = "load"
    /\ UNCHANGED <<restarts, handled, file, censor_list, allow_list, locks, pc, msg,
                   idx, i, censors, say, obs, last, alPrev, atExit,
                   failed, pin, pout>>

\* Loaded, were an absent file to reset app_data to its default.
Loaded_ResetWhenAbsent(ad, f) == IF f.exists THEN from_slice(f.bytes) ELSE DefaultAppData

\* Handler::load, what it leaves in app_data: the decoded file replaces it, an
\* absent file leaves it alone.
Loaded(ad, f) == IF f.exists THEN from_slice(f.bytes) ELSE ad

\* Does serde_cbor::from_slice return Ok: not on an empty blob (end of input), the
\* only malformed one the model's writes can leave.
Decodes(f) == f.bytes # <<>>

\* main, line 314: Handler::load and the build it ends with; no handler runs yet.
\* On a file that does not decode the unwrap of line 234 panics and main is over.
Load ==
    /\ mainpc = "load"
    /\ IF file.exists /\ ~Decodes(file)
       THEN /\ mainpc' = "crashed"
            /\ UNCHANGED <<app_data, censor_list, allow_list, alPrev>>
       ELSE /\ app_data' = Loaded(app_data, file)
            /\ censor_list' = build_trie(app_data'.words)
            /\ allow_list' = BuildAllow(censor_list')
            /\ alPrev' = allow_list'
            /\ mainpc' = "running"
    /\ UNCHANGED <<restarts, handled, file, locks, pc, msg, idx, i, censors, say, obs,
                   last, atExit, failed, pin, pout>>

(***************************************************************************)
(* Handler::message                                                        *)
(***************************************************************************)
\* The handlers whose scans are still to come: a change of the words reaches
\* their history of the censor lists that are up to date.
Noted(g, words) ==
    IF pc[g] \in {"check", "scan", "allow"}
    THEN [obs[g] EXCEPT !.ok = @ \cup {build_trie(words)}]
    ELSE obs[g]

\* The histories after handler h has changed app_data to ad.
Mutated(h, ad) ==
    [g \in Handlers |->
        IF g = h
        THEN [obs[h] EXCEPT !.steps = Append(@, "mutate"), !.after = ad, !.alone = TRUE]
        ELSE [Noted(g, ad.words) EXCEPT !.alone = FALSE]]

\* The handler returns: its locals are gone, its outcome is the last one.
Return(h, m, res, ob) ==
    /\ pc' = [pc EXCEPT ![h] = "idle"]
    /\ msg' = [msg EXCEPT ![h] = NoMessage]
    /\ obs' = [obs EXCEPT ![h] = NoObs]
    /\ last' = [msg |-> m, result |-> res, obs |-> [ob EXCEPT !.after = NoObs.after]]

\* Lines 130-151: a message arrives and the first free handler of the pool takes
\* it.  A bot is ignored, d!help is answered at once, d!list goes to say_list,
\* everything else to the admin test.
Receive(h, m) ==
    /\ mainpc = "running"
    /\ pc[h] = "idle"
    /\ \A g \in Handlers : g < h => pc[g] # "idle"
    /\ handled < MaxMessages
    /\ handled' = handled + 1
    /\ IF m.bot
       THEN Return(h, m, Result("ignored", FALSE, <<>>, <<>>), NoObs)
       ELSE IF m.content = CmdHelp
       THEN Return(h, m, Result("help", FALSE, <<>>, <<>>), NoObs)
       ELSE /\ pc' = [pc EXCEPT ![h] = IF m.content = CmdList THEN "words" ELSE "check"]
            /\ msg' = [msg EXCEPT ![h] = m]
            /\ obs' = [obs EXCEPT ![h] = [NoObs EXCEPT !.ok = {build_trie(app_data.words)}]]
            /\ last' = last
    /\ UNCHANGED <<mainpc, restarts, file, app_data, censor_list, allow_list, locks,
                   idx, i, censors, say, alPrev, atExit,
                   failed, pin, pout>>

\* Lines 153-176: the admin test under a read guard on app_data, then the
\* command's prefix; d!remove computes idx (or panics) before it takes a lock.
Check(h) ==
    /\ pc[h] = "check"
    /\ CanRead(locks.app_data)
    /\ LET admin == IsAdmin(app_data.admins, msg[h].author)
           content == msg[h].content
       IN  IF admin /\ starts_with(content, CmdAdmin)
           THEN /\ pc' = [pc EXCEPT ![h] = IF msg[h].mentions = <<>> THEN "save" ELSE "admin"]
                /\ i' = [i EXCEPT ![h] = 1]
                /\ obs' = [obs EXCEPT ![h] = [NoObs EXCEPT !.after = app_data]]
                /\ UNCHANGED <<idx, msg, last>>
           ELSE IF admin /\ starts_with(content, CmdRemove)
           THEN \E o \in RemoveIdx(content) :
                    IF o = -1
                    THEN /\ Return(h, msg[h], Result("panic", FALSE, <<>>, <<>>), NoObs)
                         /\ UNCHANGED <<idx, i>>
                    ELSE /\ pc' = [pc EXCEPT ![h] = "remove"]
                         /\ idx' = [idx EXCEPT ![h] = o]
                         /\ obs' = [obs EXCEPT ![h] = [NoObs EXCEPT !.after = app_data]]
                         /\ UNCHANGED <<i, msg, last>>
           ELSE IF admin /\ starts_with(content, CmdAdd)
           THEN /\ pc' = [pc EXCEPT ![h] = "add"]
                /\ obs' = [obs EXCEPT ![h] = [NoObs EXCEPT !.after = app_data]]
                /\ UNCHANGED <<idx, i, msg, last>>
           ELSE /\ pc' = [pc EXCEPT ![h] = "scan"]
                /\ UNCHANGED <<idx, i, msg, obs, last>>
    /\ UNCHANGED <<mainpc, restarts, handled, file, app_data, censor_list, allow_list,
                   locks, censors, say, alPrev, atExit,
                   failed, pin, pout>>

\* Lines 155-157: d!admin pushes one mentioned user under a write guard; after
\* the last one comes save.
AdminPush(h) ==
    /\ pc[h] = "admin"
    /\ CanWrite(locks.app_data)
    /\ app_data' = [app_data EXCEPT !.admins = Append(@, msg[h].mentions[i[h]])]
    /\ i' = [i EXCEPT ![h] = IF i[h] = Len(msg[h].mentions) THEN 0 ELSE @ + 1]
    /\ pc' = [pc EXCEPT ![h] = IF i[h] = Len(msg[h].mentions) THEN "save" ELSE "admin"]
    /\ obs' = Mutated(h, app_data')
    /\ UNCHANGED <<mainpc, restarts, handled, file, censor_list, allow_list, locks, msg,
                   idx, censors, say, last, alPrev, atExit,
                   failed, pin, pout>>

\* Lines 165-170: d!remove under a write guard.
Remove(h) ==
    /\ pc[h] = "remove"
    /\ CanWrite(locks.app_data)
    /\ app_data' = [app_data EXCEPT !.words = RemoveWord(@, idx[h])]
    /\ idx' = [idx EXCEPT ![h] = 0]
    /\ pc' = [pc EXCEPT ![h] = "save"]
    /\ obs' = Mutated(h, app_data')
    /\ UNCHANGED <<mainpc, restarts, handled, file, censor_list, allow_list, locks, msg,
                   i, censors, say, last, alPrev, atExit,
                   failed, pin, pout>>

\* Lines 176-177: d!add pushes the phrase under a write guard.
Add(h) ==
    /\ pc[h] = "add"
    /\ CanWrite(locks.app_data)
    /\ app_data' = [app_data EXCEPT !.words = Append(@, RemoveAll(msg[h].content, CmdAdd))]
    /\ pc' = [pc EXCEPT ![h] = "save"]
    /\ obs' = Mutated(h, app_data')
    /\ UNCHANGED <<mainpc, restarts, handled, file, censor_list, allow_list, locks, msg,
                   idx, i, censors, say, last, alPrev, atExit,
                   failed, pin, pout>>

\* std::fs::write that fails: the file as it was (it could not be opened) or
\* empty (it was truncated and nothing was written).
WriteFailed(f) == {f, File(<<>>)}

\* Save, were the listing to come before build.
Save_ReplyFirst(h) ==
    /\ pc[h] = "save"
    /\ CanRead(locks.app_data)
    /\ \/ /\ file' = File(to_vec(app_data))
          /\ pc' = [pc EXCEPT ![h] = "words"]
          /\ obs' = [obs EXCEPT ![h].steps = Append(@, "persist"),
                                ![h].wrote = obs[h].alone =>
                                                from_slice(file'.bytes) = obs[h].after]
          /\ UNCHANGED <<msg, last, failed>>
       \/ /\ file' \in WriteFailed(file)
          /\ Return(h, msg[h], Result("panic", FALSE, <<>>, <<>>), obs[h])
          /\ failed' = TRUE
    /\ UNCHANGED <<mainpc, restarts, handled, app_data, censor_list, allow_list, locks,
                   idx, i, censors, say, alPrev, atExit, pin, pout>>

\* Handler::save, lines 222-226: under a read guard on app_data, serialize it and
\* write the file.  The guard is held for nothing else, so the three are one step.
\* When the write fails the unwrap panics: the handler is gone before build, the
\* read guard is dropped by the unwinding (a read guard poisons nothing).
Save(h) ==
    /\ pc[h] = "save"
    /\ CanRead(locks.app_data)
    /\ \/ /\ file' = File(to_vec(app_data))
          /\ pc' = [pc EXCEPT ![h] = "build"]
          /\ obs' = [obs EXCEPT ![h].steps = Append(@, "persist"),
                                ![h].wrote = obs[h].alone =>
                                                from_slice(file'.bytes) = obs[h].after]
          /\ UNCHANGED <<msg, last, failed>>
       \/ /\ file' \in WriteFailed(file)
          /\ Return(h, msg[h], Result("panic", FALSE, <<>>, <<>>), obs[h])
          /\ failed' = TRUE
    /\ UNCHANGED <<mainpc, restarts, handled, app_data, censor_list, allow_list, locks,
                   idx, i, censors, say, alPrev, atExit, pin, pout>>

\* Handler::build, line 246: a read guard on app_data, kept to the end.
BuildStart(h) ==
    /\ pc[h] = "build"
    /\ CanRead(locks.app_data)
    /\ locks' = [locks EXCEPT !.app_data = AddReader(@, h)]
    /\ pc' = [pc EXCEPT ![h] = "censor"]
    /\ UNCHANGED <<mainpc, restarts, handled, file, app_data, censor_list, allow_list,
                   msg, idx, i, censors, say, obs, last, alPrev, atExit,
                   failed, pin, pout>>

\* Line 247: the new trie replaces censor_list under a write guard.
BuildCensor(h) ==
    /\ pc[h] = "censor"
    /\ CanWrite(locks.censor_list)
    /\ censor_list' = build_trie(app_data.words)
    /\ pc' = [pc EXCEPT ![h] = "cl"]
    /\ obs' = [obs EXCEPT ![h].built = obs[h].alone =>
                                          censor_list' = build_trie(obs[h].after.words)]
    /\ UNCHANGED <<mainpc, restarts, handled, file, app_data, allow_list, locks, msg,
                   idx, i, censors, say, last, alPrev, atExit,
                   failed, pin, pout>>

\* Line 249: a read guard on censor_list.
BuildCl(h) ==
    /\ pc[h] = "cl"
    /\ CanRead(locks.censor_list)
    /\ locks' = [locks EXCEPT !.censor_list = AddReader(@, h)]
    /\ pc' = [pc EXCEPT ![h] = "al"]
    /\ UNCHANGED <<mainpc, restarts, handled, file, app_data, censor_list, allow_list,
                   msg, idx, i, censors, say, obs, last, alPrev, atExit,
                   failed, pin, pout>>

\* Lines 250-251: a write guard on allow_list, reset.
BuildAl(h) ==
    /\ pc[h] = "al"
    /\ CanWrite(locks.allow_list)
    /\ locks' = [locks EXCEPT !.allow_list = SetWriter(@, h)]
    /\ alPrev' = allow_list
    /\ allow_list' = EmptyTrie
    /\ i' = [i EXCEPT ![h] = 1]
    /\ pc' = [pc EXCEPT ![h] = "fill"]
    /\ UNCHANGED <<mainpc, restarts, handled, file, app_data, censor_list, msg, idx,
                   censors, say, obs, last, atExit,
                   failed, pin, pout>>

\* Lines 252-257: one dictionary word.
Fill(h) ==
    /\ pc[h] = "fill"
    /\ i[h] <= Len(APP_WORD_LIST)
    /\ allow_list' = AllowStep(allow_list, censor_list, APP_WORD_LIST[i[h]])
    /\ i' = [i EXCEPT ![h] = @ + 1]
    /\ UNCHANGED <<mainpc, restarts, handled, file, app_data, censor_list, locks, pc,
                   msg, idx, censors, say, obs, last, alPrev, atExit,
                   failed, pin, pout>>

\* Lines 258-261: the loop is over, the three guards are dropped.
Unlock(h) ==
    /\ pc[h] = "fill"
    /\ i[h] > Len(APP_WORD_LIST)
    /\ locks' = [app_data |-> DropReader(locks.app_data, h),
                 censor_list |-> DropReader(locks.censor_list, h),
                 allow_list |-> SetWriter(locks.allow_list, 0)]
    /\ alPrev' = allow_list
    /\ i' = [i EXCEPT ![h] = 0]
    /\ pc' = [pc EXCEPT ![h] = "words"]
    /\ obs' = [obs EXCEPT ![h].steps = Append(@, "rebuild")]
    /\ UNCHANGED <<mainpc, restarts, handled, file, app_data, censor_list, allow_list,
                   msg, idx, censors, say, last, atExit,
                   failed, pin, pout>>

\* Handler::say_list, lines 264-278: the words, under a read guard.
SayWords(h) ==
    /\ pc[h] = "words"
    /\ CanRead(locks.app_data)
    /\ say' = [say EXCEPT ![h] = app_data.words]
    /\ pc' = [pc EXCEPT ![h] = "admins"]
    /\ UNCHANGED <<mainpc, restarts, handled, file, app_data, censor_list, allow_list,
                   locks, msg, idx, i, censors, obs, last, alPrev, atExit,
                   failed, pin, pout>>

\* Handler::say_list, lines 279-293: the admins, under another read guard; the
\* reply is sent ("Updated!" first unless the command was d!list).
SayAdmins(h) ==
    /\ pc[h] = "admins"
    /\ CanRead(locks.app_data)
    /\ Return(h, msg[h],
              Result("list", msg[h].content # CmdList, say[h], Names(app_data.admins)),
              [obs[h] EXCEPT !.steps = Append(@, "reply"), !.ok = {}])
    /\ say' = [say EXCEPT ![h] = <<>>]
    /\ UNCHANGED <<mainpc, restarts, handled, file, app_data, censor_list, allow_list,
                   locks, idx, i, censors, alPrev, atExit,
                   failed, pin, pout>>

\* Is some handler inside Handler::build.
Building == \E g \in Handlers : pc[g] \in {"censor", "cl", "al", "fill"}

\* Lines 183-185: the scan of censor_list under a read guard; no match ends
\* the handler.
Scan(h) ==
    /\ pc[h] = "scan"
    /\ CanRead(locks.censor_list)
    /\ LET found == find_matches(censor_list, to_lowercase(msg[h].content))
           ob == [obs[h] EXCEPT !.cl = censor_list, !.scanned = 1,
                                !.clFresh = censor_list \in obs[h].ok]
       IN  IF found = <<>>
           THEN /\ Return(h, msg[h], Result("kept", FALSE, <<>>, <<>>),
                          [ob EXCEPT !.ok = {}])
                /\ UNCHANGED censors
           ELSE /\ censors' = [censors EXCEPT ![h] = found]
                /\ pc' = [pc EXCEPT ![h] = "allow"]
                /\ obs' = [obs EXCEPT ![h] = ob]
                /\ UNCHANGED <<msg, last>>
    /\ UNCHANGED <<mainpc, restarts, handled, file, app_data, censor_list, allow_list,
                   locks, idx, i, say, alPrev, atExit,
                   failed, pin, pout>>

\* Lines 186-207: the scan of allow_list under a read guard and the resolution:
\* the message is deleted or kept.
Allow(h) ==
    /\ pc[h] = "allow"
    /\ CanRead(locks.allow_list)
    /\ LET allows == find_matches(allow_list, to_lowercase(msg[h].content)) IN
       Return(h, msg[h],
              Result(IF Suppressed(censors[h], allows) THEN "deleted" ELSE "kept",
                     FALSE, <<>>, <<>>),
              [obs[h] EXCEPT !.al = allow_list, !.scanned = 2,
                             !.alFresh = allow_list \in {BuildAllow(t) : t \in obs[h].ok},
                             !.inBuild = Building,
                             !.torn = allow_list \notin {alPrev, BuildAllow(censor_list)},
                             !.ok = {}])
    /\ censors' = [censors EXCEPT ![h] = <<>>]
    /\ UNCHANGED <<mainpc, restarts, handled, file, app_data, censor_list, allow_list,
                   locks, idx, i, say, alPrev, atExit,
                   failed, pin, pout>>

\* Has the handler changed app_data without having written the file since.
Unsaved(h) == pc[h] = "save" \/ (pc[h] = "admin" /\ i[h] > 1)

\* No mutating command is under way and none has failed in save.
Quiet == ~failed /\ \A h \in Handlers : ~Unsaved(h)

\* The process is stopped and started again: everything but the file is lost.
Restart ==
    /\ mainpc = "running"
    /\ restarts < MaxRestarts
    /\ atExit' = [quiet |-> Quiet, data |-> app_data]
    /\ mainpc' = "seed"
    /\ restarts' = restarts + 1
    /\ app_data' = DefaultAppData
    /\ censor_list' = EmptyTrie
    /\ allow_list' = EmptyTrie
    /\ locks' = [app_data |-> Unlocked, censor_list |-> Unlocked, allow_list |-> Unlocked]
    /\ pc' = [h \in Handlers |-> "idle"]
    /\ msg' = [h \in Handlers |-> NoMessage]
    /\ idx' = [h \in Handlers |-> 0]
    /\ i' = [h \in Handlers |-> 0]
    /\ censors' = [h \in Handlers |-> <<>>]
    /\ say' = [h \in Handlers |-> <<>>]
    /\ obs' = [h \in Handlers |-> NoObs]
    /\ last' = NoLast
    /\ alPrev' = EmptyTrie
    /\ failed' = FALSE
    /\ UNCHANGED <<handled, file, pin, pout>>

Next ==
    \/ Seed
    \/ Load
    \/ Restart
    \/ \E h \in Handlers : \E m \in Messages : Receive(h, m)
    \/ \E h \in Handlers : Check(h)
    \/ \E h \in Handlers : AdminPush(h)
    \/ \E h \in Handlers : Remove(h)
    \/ \E h \in Handlers : Add(h)
    \/ \E h \in Handlers : Save(h)
    \/ \E h \in Handlers : BuildStart(h)
    \/ \E h \in Handlers : BuildCensor(h)
    \/ \E h \in Handlers : BuildCl(h)
    \/ \E h \in Handlers : BuildAl(h)
    \/ \E h \in Handlers : Fill(h)
    \/ \E h \in Handlers : Unlock(h)
    \/ \E h \in Handlers : SayWords(h)
    \/ \E h \in Handlers : SayAdmins(h)
    \/ \E h \in Handlers : Scan(h)
    \/ \E h \in Handlers : Allow(h)

Spec == Init /\ [][Next]_vars

(***************************************************************************)
(* The pure functions on bounded inputs                                    *)
(***************************************************************************)
\* The index that inserting the phrases one after the other builds.
RECURSIVE InsertAll(_, _)
InsertAll(trie, phrases) ==
    IF phrases = <<>> THEN trie ELSE InsertAll(insert(trie, Head(phrases)), Tail(phrases))

\* The spans a scan may report: 0 <= start <= end <= MaxOffset.
Spans == {sp \in (0..MaxOffset) \X (0..MaxOffset) : sp[1] <= sp[2]}

\* The decimal digit n as a character.
DigitChar(n) == CHOOSE c \in DOMAIN AsciiCode : DigitValue(c) = n

\* The content "d!remove n", n a single digit.
RemoveCommand(n) == CmdRemove \o <<DigitChar(n)>>

Input(op, words, text, cs, as) ==
    [op |-> op, words |-> words, text |-> text, censors |-> cs, allows |-> as,
     keys |-> <<>>]

\* ENV_PATHS, the directories main looks for the file "key" in, in this order.
ENV_PATHS == << <<".", "/", "e", "n", "v", "/">>,
               <<".", ".", "/", ".", ".", "/", "e", "n", "v", "/">> >>

\* std::fs::read_to_string of a key file: Err, or Ok with the content.
NoKey == [ok |-> FALSE, content |-> <<>>]
Key(content) == [ok |-> TRUE, content |-> content]

\* main, lines 307-312: the loop over ENV_PATHS from path k on; token is replaced
\* by every key that is read.
RECURSIVE TokenFrom(_, _, _)
TokenFrom(token, keys, k) ==
    IF k > Len(ENV_PATHS)
    THEN token
    ELSE TokenFrom(IF keys[k].ok THEN keys[k].content ELSE token, keys, k + 1)

\* main, lines 305-312: token starts empty.
FindToken(keys) == TokenFrom(<<>>, keys, 1)

\* "scan": an index built from up to MaxPhrases phrases (the empty one among
\* them) and a text; "insert": such an index and a phrase; "resolve": a list of
\* block spans and a list of allow spans; "remove": a word list and the content
\* of a d!remove command; "token": what reading the key file gives at each of
\* the ENV_PATHS.
PureInput ==
    \/ \E w \in SeqsOf(SeqsOf(PhraseChars, 0, MaxPhraseLen), 0, MaxPhrases) :
       \E t \in SeqsOf(TextChars, 0, MaxTextLen) :
           pin = Input("scan", w, t, <<>>, <<>>)
    \/ \E w \in SeqsOf(SeqsOf(PhraseChars, 0, MaxPhraseLen), 0, MaxPhrases) :
       \E t \in SeqsOf(TextChars, 0, MaxPhraseLen) :
           pin = Input("insert", w, t, <<>>, <<>>)
    \/ \E cs \in SeqsOf(Spans, 0, MaxSpans) :
       \E as \in SeqsOf(Spans, 0, MaxSpans) :
           pin = Input("resolve", <<>>, <<>>, cs, as)
    \/ \E w \in SeqsOf({<<"a">>, <<"s">>}, 0, MaxWords) :
       \E t \in {RemoveCommand(n) : n \in 0..(MaxWords + 1)} \cup {CmdRemove \o <<"x">>} :
           pin = Input("remove", w, t, <<>>, <<>>)
    \/ \E keys \in [DOMAIN ENV_PATHS -> {NoKey, Key(<<>>), Key(<<"a">>), Key(<<"s">>)}] :
           pin = [Input("token", <<>>, <<>>, <<>>, <<>>) EXCEPT !.keys = keys]

PureInit ==
    /\ Fresh(NoFile, 0, 0)
    /\ atExit = [quiet |-> FALSE, data |-> DefaultAppData]
    /\ PureInput
    /\ pout = NoOut

\* Trie::find_matches and Trie::find_word on the index and the text.
PureScan ==
    /\ pin.op = "scan"
    /\ ~pout.done
    /\ LET trie == InsertAll(EmptyTrie, pin.words) IN
       pout' = [NoOut EXCEPT !.done = TRUE,
                             !.trie = trie,
                             !.matches = find_matches(trie, pin.text),
                             !.found = find_word(trie, pin.text)]
    /\ UNCHANGED <<procvars, pin>>

\* Trie::insert of the phrase into the index, once and once more.
PureInsert ==
    /\ pin.op = "insert"
    /\ ~pout.done
    /\ LET trie == InsertAll(EmptyTrie, pin.words)
           once == insert(trie, pin.text)
       IN  pout' = [NoOut EXCEPT !.done = TRUE,
                                 !.trie = trie,
                                 !.once = once,
                                 !.twice = insert(once, pin.text)]
    /\ UNCHANGED <<procvars, pin>>

\* The resolution of the two span lists.
PureResolve ==
    /\ pin.op = "resolve"
    /\ ~pout.done
    /\ pout' = [NoOut EXCEPT !.done = TRUE,
                             !.suppressed = Suppressed(pin.censors, pin.allows)]
    /\ UNCHANGED <<procvars, pin>>

\* d!remove on the word list: the position computation, then the removal.
PureRemove ==
    /\ pin.op = "remove"
    /\ ~pout.done
    /\ \E o \in RemoveIdx(pin.text) :
           pout' = IF o = -1
                   THEN [NoOut EXCEPT !.done = TRUE, !.panic = TRUE, !.words = pin.words]
                   ELSE [NoOut EXCEPT !.done = TRUE, !.words = RemoveWord(pin.words, o)]
    /\ UNCHANGED <<procvars, pin>>

\* main, lines 305-312: the token lookup.
PureToken ==
    /\ pin.op = "token"
    /\ ~pout.done
    /\ pout' = [NoOut EXCEPT !.done = TRUE, !.token = FindToken(pin.keys)]
    /\ UNCHANGED <<procvars, pin>>

PureNext == PureScan \/ PureInsert \/ PureResolve \/ PureRemove \/ PureToken

PureSpec == PureInit /\ [][PureNext]_vars

(***************************************************************************)
(* Properties of the pure functions (PureSpec)                             *)
(***************************************************************************)
Range(f) == {f[k] : k \in DOMAIN f}

\* The occurrences of the phrases in the text: the spans (a, b), 0-based and
\* inclusive, whose characters are a phrase.
Occurrences(phrases, text) ==
    {sp \in (0..(Len(text) - 1)) \X (0..(Len(text) - 1)) :
        sp[1] <= sp[2] /\ SubSeq(text, sp[1] + 1, sp[2] + 1) \in Range(phrases)}

Scanned == pout.done /\ pin.op = "scan"
NonEmptyPhrases == \A k \in DOMAIN pin.words : pin.words[k] # <<>>

\* C1: on an index built from non-empty phrases, find_matches returns exactly
\* the occurrences of the phrases in the text, each one once.
C1_ExactMatches ==
    Scanned /\ NonEmptyPhrases =>
        /\ Range(pout.matches) = Occurrences(pin.words, pin.text)
        /\ Len(pout.matches) = Cardinality(Range(pout.matches))

\* C1, its case: a scan that reported three or more spans, two of them
\* overlapping or nested.
C1_Witness ==
    /\ Scanned /\ NonEmptyPhrases
    /\ Len(pout.matches) >= 3
    /\ \E p, q \in Range(pout.matches) : p # q /\ p[1] <= q[1] /\ q[1] <= p[2]

\* Is the block span contained in some allow span.
Contained(bs, allows) ==
    \E k \in DOMAIN allows : allows[k][1] <= bs[1] /\ allows[k][2] >= bs[2]

\* C2: the message is suppressed iff some block span is contained in no allow
\* span.
C2_SuppressIffUncovered ==
    pout.done /\ pin.op = "resolve" =>
        (pout.suppressed <=>
            \E k \in DOMAIN pin.censors : ~Contained(pin.censors[k], pin.allows))

\* C2, its case: two block spans, each contained in an allow span, and an allow
\* span that overlaps a block span without containing it: not suppressed.
C2_Witness ==
    /\ pout.done /\ pin.op = "resolve"
    /\ Len(pin.censors) = 2
    /\ ~pout.suppressed
    /\ \E k \in DOMAIN pin.allows :
           /\ pin.allows[k][1] <= pin.censors[1][2]
           /\ pin.allows[k][2] >= pin.censors[1][1]
           /\ ~Contained(pin.censors[1], <<pin.allows[k]>>)

\* C3 as stated: find_word is true iff find_matches reports a span.
C3_FindWordIffMatches == Scanned => (pout.found <=> pout.matches # <<>>)

\* C3 as amended: find_word is true iff find_matches reports a span that starts
\* at the first character (a stored phrase is a prefix of the text).
C3_FindWordIffPrefixMatch ==
    Scanned => (pout.found <=> \E k \in DOMAIN pout.matches : pout.matches[k][1] = 0)

\* C3, its case: a phrase occurs in the text, but not at its start.
C3_Witness == Scanned /\ ~pout.found /\ pout.matches # <<>>

\* C7: d!remove n with 1 <= n <= L leaves the L - 1 other phrases in their
\* order, those after position n one position down; with n > L nothing changes.
C7_RemoveAtPosition ==
    \A n \in 1..(MaxWords + 1) :
        pout.done /\ pin.op = "remove" /\ pin.text = RemoveCommand(n) =>
            LET w == pin.words IN
            /\ ~pout.panic
            /\ IF n <= Len(w)
               THEN /\ Len(pout.words) = Len(w) - 1
                    /\ \A k \in 1..(Len(w) - 1) :
                           pout.words[k] = IF k < n THEN w[k] ELSE w[k + 1]
               ELSE pout.words = w

\* C7, its case: the second of MaxWords words was removed.
C7_Witness ==
    /\ pout.done /\ pin.op = "remove" /\ pin.text = RemoveCommand(2)
    /\ Len(pin.words) = MaxWords
    /\ pin.words[2] # pin.words[3]
    /\ Len(pout.words) = MaxWords - 1

(***************************************************************************)
(* Properties of the running process (Spec)                                *)
(***************************************************************************)
\* The histories of the scans: of the handlers under way and of the last one
\* that returned.
Histories == {obs[h] : h \in Handlers} \cup {last.obs}

\* C4 as stated: a scan reads indexes that reflect every change of the words
\* made before its handler started (a censor list built from the words as they
\* were at the start or later, an allow list derived from such a censor list).
C4_NoStaleScan ==
    \A o \in Histories :
        /\ o.scanned >= 1 => o.clFresh
        /\ o.scanned = 2 => o.alFresh

\* C5 as stated: the allow list a handler read is the one derived from the
\* censor list it read.
C5_SameRebuild ==
    \A o \in Histories : o.scanned = 2 => o.al = BuildAllow(o.cl)

\* C6: a scan of allow_list that falls into a rebuild reads the allow list as
\* it was before the rebuild's reset or as the rebuild leaves it.
C6_NoTornIndex ==
    \A o \in Histories : o.scanned = 2 /\ o.inBuild => ~o.torn

\* C6, its case: a handler read allow_list while another was inside build.
C6_Witness ==
    /\ last.obs.scanned = 2 /\ last.obs.inBuild /\ ~last.obs.torn
    /\ last.result.kind = "kept"

\* What main pushes before load.
SeededAppData == [DefaultAppData EXCEPT !.admins = <<Mip>>]

\* C8: with no mutating command under way, what a start of the process would
\* load from the file is the rule set in memory; and a process restarted then
\* has, after load, the words and the admins it had before.
C8_RoundTrip ==
    /\ [](mainpc = "running" /\ Quiet => Loaded(SeededAppData, file) = app_data)
    /\ [][mainpc = "load" /\ atExit.quiet => app_data' = atExit.data]_vars

\* C8, its case: the process was restarted after a d!admin command had
\* completed and has loaded the two admins again.
C8_Witness ==
    /\ mainpc = "running"
    /\ restarts >= 1
    /\ atExit.quiet
    /\ app_data.admins = <<Mip, Bob>>
    /\ app_data = atExit.data

\* Is the author of the message one of the admins in memory.
AuthorInAdmins(m) ==
    m.author \in {app_data.admins[k][2] : k \in DOMAIN app_data.admins}

\* Handler h takes the step.
Stepped(h) == pc'[h] # pc[h] \/ i'[h] # i[h]

IsMutatingCommand(content) ==
    starts_with(content, CmdAdmin) \/ starts_with(content, CmdRemove)
        \/ starts_with(content, CmdAdd)

\* d!help and d!list were answered, unless (exceptBots) the author is a bot.
Answered(exceptBots) ==
    /\ last.msg.content = CmdHelp /\ ~(exceptBots /\ last.msg.bot)
           => last.result.kind = "help"
    /\ last.msg.content = CmdList /\ ~(exceptBots /\ last.msg.bot)
           => last.result.kind = "list"

\* C9 as stated, its last part: d!help and d!list are answered for every sender.
C9_AnsweredForEverySender == Answered(FALSE)

\* C9 as amended: while the process runs, app_data changes only in a step of a
\* handler of an add, remove or admin command whose author passed the admin
\* test; the step of a handler whose author is not in admins, and the arrival of
\* a message, leave app_data, the file and both indexes unchanged; d!help and
\* d!list are answered for every sender that is not a bot.
C9_OnlyAdminsChange ==
    /\ [][mainpc = "running" /\ mainpc' = "running" =>
            /\ app_data' # app_data =>
                   \E h \in Handlers :
                       /\ Stepped(h)
                       /\ pc[h] \in {"admin", "remove", "add"}
                       /\ IsMutatingCommand(msg[h].content)
                       /\ AuthorInAdmins(msg[h])
            /\ \A h \in Handlers :
                   pc[h] = "check" /\ pc'[h] \in {"admin", "remove", "add", "save"}
                       => AuthorInAdmins(msg[h])
            /\ \A h \in Handlers :
                   Stepped(h) /\ pc[h] # "idle" /\ ~AuthorInAdmins(msg[h])
                       => UNCHANGED <<app_data, file, censor_list, allow_list>>
            /\ handled' # handled => UNCHANGED <<app_data, file, censor_list, allow_list>>
       ]_vars
    /\ []Answered(TRUE)

\* C9, its case: a d!add from a sender who is not in admins was handled as an
\* ordinary message.
C9_Witness ==
    /\ starts_with(last.msg.content, CmdAdd)
    /\ ~AuthorInAdmins(last.msg)
    /\ last.result.kind \in {"kept", "deleted"}
    /\ restarts = 0

\* C10 as stated: once startup is over, the hardcoded administrator is in admins.
C10_HardcodedAdminAlways ==
    mainpc = "running" => MipId \in {app_data.admins[k][2] : k \in DOMAIN app_data.admins}

\* No handler is under way.
AllIdle == \A h \in Handlers : pc[h] = "idle"

\* C11 as stated: after a save that failed, once no handler is under way, the
\* censor list is the index of the words in memory and the allow list is the one
\* derived from it.
C11_ConsistentAfterFailedWrite ==
    mainpc = "running" /\ failed /\ AllIdle =>
        /\ censor_list = build_trie(app_data.words)
        /\ allow_list = BuildAllow(censor_list)

\* C12: as long as appdata.bin is absent, startup has not failed, both indexes
\* are the ones built from no words (an empty censor list, the whole dictionary
\* in the allow list) and, unless a command has changed it since, app_data is
\* the seeded default: no words, the hardcoded admin alone.
C12_AbsentFileKeepsDefault ==
    ~file.exists /\ mainpc \notin {"seed", "load"} =>
        /\ mainpc = "running"
        /\ censor_list = EmptyTrie
        /\ allow_list = InsertAll(EmptyTrie, APP_WORD_LIST)
        /\ Quiet => app_data = [words |-> <<>>, admins |-> <<Mip>>]

\* C12, its case: started without a file, the process has answered a d!list
\* with no words and the hardcoded admin.
C12_Witness ==
    /\ ~file.exists
    /\ mainpc = "running"
    /\ last.msg.content = CmdList
    /\ last.result = Result("list", FALSE, <<>>, <<Mip[1]>>)

\* The place of a step in the order of a command.
StepRank(step) ==
    CASE step = "mutate" -> 1 [] step = "persist" -> 2 [] step = "rebuild" -> 3
      [] step = "reply" -> 4

\* The steps came in the order mutate (once per change), persist, rebuild, reply.
InOrder(steps) ==
    \A j, k \in DOMAIN steps :
        j < k => \/ StepRank(steps[j]) < StepRank(steps[k])
                 \/ steps[j] = "mutate" /\ steps[k] = "mutate"

\* The history o of the command m: the steps are in order, none is skipped
\* (the changes are as many as d!admin has mentions, one for d!add and
\* d!remove), what was written and built held the command's own change, and the
\* listing (replied) came after the build.
CommandInOrder(m, o, replied) ==
    LET changes == IF starts_with(m.content, CmdAdmin) THEN Len(m.mentions) ELSE 1
        after == SubSeq(o.steps, changes + 1, Len(o.steps))
    IN  /\ InOrder(o.steps)
        /\ "persist" \in Range(o.steps) =>
               /\ Len(o.steps) > changes
               /\ \A k \in 1..changes : o.steps[k] = "mutate"
               /\ o.steps[changes + 1] = "persist"
               /\ o.wrote
        /\ "rebuild" \in Range(o.steps) =>
               /\ <<"persist", "rebuild">> = SubSeq(after, 1, 2)
               /\ o.built
        /\ replied => after = <<"persist", "rebuild", "reply">>

\* C15: every add, remove and admin command that passed the admin test takes
\* its steps in the order change, write of the file, rebuild, listing; when the
\* listing is sent the file has been written with the change and both indexes
\* have been rebuilt from words that hold it.
C15_MutatePersistRebuildReply ==
    /\ \A h \in Handlers :
           /\ InOrder(obs[h].steps)
           /\ pc[h] \in {"admin", "remove", "add", "save", "build", "censor", "cl", "al",
                         "fill"}
                  => CommandInOrder(msg[h], obs[h], FALSE)
           /\ pc[h] \in {"words", "admins"} /\ msg[h].content # CmdList
                  => /\ CommandInOrder(msg[h], obs[h], FALSE)
                     /\ "rebuild" \in Range(obs[h].steps)
    /\ last.result.updated => CommandInOrder(last.msg, last.obs, TRUE)
    /\ last.result.kind = "panic" => "reply" \notin Range(last.obs.steps)

\* C15, its case: a d!add was answered after its change, its write and its
\* rebuild, while another handler changed app_data in between.
C15_Witness ==
    /\ last.result.updated
    /\ starts_with(last.msg.content, CmdAdd)
    /\ last.obs.steps = <<"mutate", "persist", "rebuild", "reply">>
    /\ ~last.obs.alone

\* A rebuild is just over: a handler has ended the loop of build and still holds
\* its guards, or the process runs and no handler is under way.
RebuildDone ==
    \/ \E h \in Handlers : pc[h] = "fill" /\ i[h] > Len(APP_WORD_LIST)
    \/ mainpc = "running" /\ AllIdle

\* The censor list matches nowhere in the word; it matches no beginning of it.
CensoredNowhere(word) == find_matches(censor_list, word) = <<>>
CensoredAtNoStart(word) ==
    \A k \in DOMAIN find_matches(censor_list, word) :
        find_matches(censor_list, word)[k][1] # 0

\* C16 as stated: after a rebuild the allow list is the index of the dictionary
\* words in which the censor list matches nowhere.
C16_AllowListOfUncensoredWords ==
    RebuildDone =>
        allow_list = InsertAll(EmptyTrie, SelectSeq(APP_WORD_LIST, CensoredNowhere))

\* C16 as amended: after a rebuild the allow list is the index of the dictionary
\* words that no banned phrase is a prefix of (the censor list matches at no
\* span that starts at the first character of the word).
C16_AllowListOfUnprefixedWords ==
    RebuildDone =>
        allow_list = InsertAll(EmptyTrie, SelectSeq(APP_WORD_LIST, CensoredAtNoStart))

\* C16, its case: a rebuild has left one dictionary word out and has kept
\* another that a banned phrase occurs in, but not at its beginning.
C16_Witness ==
    /\ \E h \in Handlers : pc[h] = "fill" /\ i[h] > Len(APP_WORD_LIST)
    /\ \E k \in DOMAIN APP_WORD_LIST :
           /\ ~CensoredNowhere(APP_WORD_LIST[k])
           /\ <<0, Len(APP_WORD_LIST[k]) - 1>>
                  \in Range(find_matches(allow_list, APP_WORD_LIST[k]))
    /\ \E k \in DOMAIN APP_WORD_LIST :
           find_matches(allow_list, APP_WORD_LIST[k]) = <<>>

\* A d!remove whose argument is not a number; one whose argument is 0.
RemoveNoNumber(m) == m.content = CmdRemove \o <<"x">>
RemoveZero(m) == m.content = CmdRemove \o <<"0">>

\* Handler h is past the admin test in an admin command.
InCommand(h) == pc[h] \notin {"idle", "check", "scan", "allow"}

\* Handler h panics in this step, at the position computation.
PanicsAtCheck(h) ==
    pc[h] = "check" /\ pc'[h] = "idle" /\ last'.result.kind = "panic"

\* Handler h holds no guard.
HoldsNothing(h) ==
    \A l \in {"app_data", "censor_list", "allow_list"} :
        h \notin locks[l].readers /\ locks[l].writer # h

\* C17 as stated: a d!remove from an admin whose argument is not a number or
\* is 0 never gets past the position computation: its handler panics there.
C17_BadRemovePanics ==
    /\ \A h \in Handlers : RemoveNoNumber(msg[h]) \/ RemoveZero(msg[h]) => ~InCommand(h)
    /\ RemoveNoNumber(last.msg) \/ RemoveZero(last.msg) => last.result.kind # "list"

\* C17 as amended: a d!remove from an admin whose argument is not a number
\* panics at the position computation; one whose argument is 0 panics there or
\* goes on with a position past every word, so that it removes nothing and is
\* answered with the unchanged listing.  The step that panics changes neither
\* app_data nor the file nor an index nor a lock, the handler holds no guard
\* then or after, and only an admin's command panics there or goes on.
C17_BadRemoveChangesNothing ==
    /\ [](\A h \in Handlers :
            /\ RemoveNoNumber(msg[h]) => ~InCommand(h)
            /\ RemoveZero(msg[h]) /\ pc[h] = "remove" =>
                   /\ idx[h] >= Len(app_data.words)
                   /\ RemoveWord(app_data.words, idx[h]) = app_data.words
            /\ RemoveZero(msg[h]) /\ InCommand(h) => AuthorInAdmins(msg[h])
            /\ pc[h] \in {"idle", "check", "scan", "allow"} => HoldsNothing(h))
    /\ [](RemoveNoNumber(last.msg) =>
            /\ last.result.kind \in {"panic", "kept", "deleted"}
            /\ last.result.kind = "panic" <=> AuthorInAdmins(last.msg))
    /\ [](RemoveZero(last.msg) =>
            /\ last.result.kind \in {"panic", "list", "kept", "deleted"}
            /\ last.result.kind \in {"panic", "list"} => AuthorInAdmins(last.msg)
            /\ last.result.kind = "list" => last.result.updated)
    /\ [][\A h \in Handlers :
             PanicsAtCheck(h) =>
                 /\ RemoveNoNumber(msg[h]) \/ RemoveZero(msg[h])
                 /\ AuthorInAdmins(msg[h])
                 /\ HoldsNothing(h)
                 /\ UNCHANGED <<app_data, file, censor_list, allow_list, locks, failed>>
       ]_vars

\* C17, its case: with a word in the list, a d!remove 0 was answered with the
\* unchanged listing (0 - 1 has wrapped).
C17_Witness ==
    /\ RemoveZero(last.msg)
    /\ last.result.kind = "list"
    /\ last.result.words # <<>>
    /\ last.result.words = app_data.words

\* No mutating command is in flight: no handler is between the admin test it
\* passed and the end of its save, and no save has failed.
NoneInFlight ==
    /\ mainpc = "running"
    /\ ~failed
    /\ \A h \in Handlers : pc[h] \in {"idle", "check", "scan", "allow", "words", "admins"}

\* C19: whenever no mutating command is in flight, the censor list is the index
\* of the lower-cased words in memory, the allow list is the one derived from
\* that censor list (the dictionary words no banned phrase is a prefix of), and
\* what a start of the process would load from the file is the words and admins
\* in memory.
C19_SharedStateAgrees ==
    NoneInFlight =>
        /\ censor_list =
               InsertAll(EmptyTrie,
                         [k \in DOMAIN app_data.words |-> to_lowercase(app_data.words[k])])
        /\ allow_list = InsertAll(EmptyTrie, SelectSeq(APP_WORD_LIST, CensoredAtNoStart))
        /\ IF file.exists
           THEN Decodes(file) /\ from_slice(file.bytes) = app_data
           ELSE app_data = [words |-> <<>>, admins |-> <<Mip>>]

\* C19, its case: two commands that ran at the same time have both changed
\* app_data and both are over; a capital letter is among the words.
C19_Witness ==
    /\ NoneInFlight /\ AllIdle
    /\ last.result.updated
    /\ ~last.obs.alone
    /\ app_data.words = << <<"E">> >>
    /\ app_data.admins = <<Mip, Bob>>

\* The lock handler h asks for next, and whether for writing ("none": its next
\* step takes no lock).
Wants(h) ==
    CASE pc[h] \in {"check", "save", "build", "words", "admins"} ->
             [lock |-> "app_data", write |-> FALSE]
      [] pc[h] \in {"admin", "remove", "add"} -> [lock |-> "app_data", write |-> TRUE]
      [] pc[h] = "censor" -> [lock |-> "censor_list", write |-> TRUE]
      [] pc[h] \in {"cl", "scan"} -> [lock |-> "censor_list", write |-> FALSE]
      [] pc[h] = "al" -> [lock |-> "allow_list", write |-> TRUE]
      [] pc[h] = "allow" -> [lock |-> "allow_list", write |-> FALSE]
      [] OTHER -> [lock |-> "none", write |-> FALSE]

\* Handler h waits for a lock: a writer for as long as the lock is held at all,
\* a reader for as long as it is held for writing or (with a lock that lets
\* waiting writers go first, as std::sync::RwLock may) a writer waits for it.
Blocked(h) ==
    LET w == Wants(h) IN
    /\ w.lock # "none"
    /\ IF w.write
       THEN locks[w.lock].writer # 0 \/ locks[w.lock].readers # {}
       ELSE \/ locks[w.lock].writer # 0
            \/ \E g \in Handlers \ {h} : Wants(g) = [lock |-> w.lock, write |-> TRUE]

\* C20: in no state is every handler that is under way waiting for a lock.
C20_NoDeadlock ==
    (\E h \in Handlers : pc[h] # "idle") =>
        \E h \in Handlers : pc[h] # "idle" /\ ~Blocked(h)

\* C20, its case: a handler inside build holds the read guards on app_data and
\* censor_list and waits for the write guard on allow_list, which another
\* handler holds.
C20_Witness ==
    \E h, g \in Handlers :
        /\ pc[h] = "al" /\ Blocked(h)
        /\ h \in locks.app_data.readers /\ h \in locks.censor_list.readers
        /\ pc[g] = "fill" /\ locks.allow_list.writer = g

(***************************************************************************)
(* More properties of the pure functions (PureSpec)                        *)
(***************************************************************************)
Inserted == pout.done /\ pin.op = "insert"

\* C13: for every index and every phrase, the index after the phrase was
\* inserted twice is the index after it was inserted once (the same nodes and
\* flags, so the same scans).
C13_InsertIdempotent == Inserted => pout.twice = pout.once

\* C13, its case: a phrase of two characters was inserted into an index that
\* held other phrases, one of them with the same first character, and the
\* insertion changed the index.
C13_Witness ==
    /\ Inserted
    /\ Len(pin.text) = 2
    /\ pin.text \notin Range(pin.words)
    /\ \E k \in DOMAIN pin.words : pin.words[k] # <<>> /\ pin.words[k][1] = pin.text[1]
    /\ pout.once # pout.trie
    /\ pout.twice = pout.once

IsNonEmpty(phrase) == phrase # <<>>

\* C14: the empty phrases of a words list leave no trace in the index built
\* from it; when the list holds nothing but empty phrases the index is the empty
\* one, a scan of any text reports no span, find_word is false and no message
\* is suppressed.
C14_EmptyPhraseNoOp ==
    Scanned =>
        LET real == SelectSeq(pin.words, IsNonEmpty) IN
        /\ pout.trie = InsertAll(EmptyTrie, real)
        /\ real = <<>> =>
               /\ pout.trie = [children |-> << >>, end |-> FALSE]
               /\ build_trie(pin.words) = pout.trie
               /\ pout.matches = <<>>
               /\ ~pout.found
               /\ ~Suppressed(pout.matches, <<>>)

\* C14, its case: a text was scanned with the index built from two empty
\* phrases.
C14_Witness ==
    /\ Scanned
    /\ pin.words = << <<>>, <<>> >>
    /\ Len(pin.text) >= 2
    /\ pout.matches = <<>>

\* The first path at which the key file can be read.
FirstKey(keys) ==
    CHOOSE k \in DOMAIN keys : keys[k].ok /\ \A j \in 1..(k - 1) : ~keys[j].ok

\* C18 as stated: the token is the content of the key file at the first of
\* ENV_PATHS at which one can be read (and stays empty when there is none).
C18_FirstKeyWins ==
    pout.done /\ pin.op = "token" =>
        IF \E k \in DOMAIN pin.keys : pin.keys[k].ok
        THEN pout.token = pin.keys[FirstKey(pin.keys)].content
        ELSE pout.token = <<>>

=============================================================================
